---- MODULE Spec2Model ----
(***************************************************************************)
(* Model of the tally launcher, packaging/pypi/tally_cli/main.py.          *)
(*                                                                         *)
(* Strings the program transforms (platform names, paths, the diagnostic)  *)
(* are sequences of one-character strings, so that lower(), the f-string   *)
(* concatenations, os.path.dirname and os.path.join are computed character *)
(* by character.  The forwarded command-line arguments are never inspected *)
(* by the program and are kept as atomic strings.  None is <<>> and a      *)
(* present value v is <<v>>.                                               *)
(*                                                                         *)
(* One behaviour is a series of invocations of one installed launcher on   *)
(* one host: the host and the location of the module are fixed by Init,    *)
(* the working directory, the arguments and the file system are given anew *)
(* to each invocation.  prev remembers the invocation that ended last, so  *)
(* that properties of pairs of invocations can be stated.                  *)
(***************************************************************************)
EXTENDS Integers, Sequences, FiniteSets

\* ---------------------------------------------------------------- bounds
MaxRuns == 2

\* ------------------------------------------------------- string literals
SEP == "/"
ISSUE_URL == <<"h", "t", "t", "p", "s", ":", "/", "/", "g", "i", "t", "h", "u", "b", ".", "c", "o", "m", "/", "w", "h", "a", "r", "f", "l", "a", "b", "/", "t", "a", "l", "l", "y", "/", "i", "s", "s", "u", "e", "s", "/", "n", "e", "w">>
DIAG_PREFIX == <<"C", "o", "u", "l", "d", "n", "'", "t", " ", "f", "i", "n", "d", " ", "b", "i", "n", "a", "r", "y", " ">>
DIAG_MIDDLE == <<".", " ", "P", "l", "e", "a", "s", "e", " ", "c", "r", "e", "a", "t", "e", " ", "a", "n", " ", "i", "s", "s", "u", "e", ":", " ">>
S_amd64 == <<"a", "m", "d", "6", "4">>
S_x86_64 == <<"x", "8", "6", "_", "6", "4">>
S_aarch64 == <<"a", "a", "r", "c", "h", "6", "4">>
S_arm64 == <<"a", "r", "m", "6", "4">>
S_windows == <<"w", "i", "n", "d", "o", "w", "s">>
S_exe == <<".", "e", "x", "e">>
S_bin == <<"b", "i", "n">>
S_tally == <<"t", "a", "l", "l", "y">>
S_tally_dash == <<"t", "a", "l", "l", "y", "-">>
S_dash == <<"-">>
UPPERCASE == <<"A", "B", "C", "D", "E", "F", "G", "H", "I", "J", "K", "L", "M", "N", "O", "P", "Q", "R", "S", "T", "U", "V", "W", "X", "Y", "Z">>
LOWERCASE == <<"a", "b", "c", "d", "e", "f", "g", "h", "i", "j", "k", "l", "m", "n", "o", "p", "q", "r", "s", "t", "u", "v", "w", "x", "y", "z">>

\* ------------------------------------------------- inputs of the launcher
H_Linux == <<"L", "i", "n", "u", "x">>
H_Windows == <<"W", "i", "n", "d", "o", "w", "s">>
H_Darwin == <<"D", "a", "r", "w", "i", "n">>
H_AMD64 == <<"A", "M", "D", "6", "4">>
H_riscv64 == <<"r", "i", "s", "c", "v", "6", "4">>
F_site == <<"/", "s", "p", "/", "t", "a", "l", "l", "y", "_", "c", "l", "i", "/", "m", "a", "i", "n", ".", "p", "y">>
F_rel == <<"m", "a", "i", "n", ".", "p", "y">>
F_root == <<"/", "m", "a", "i", "n", ".", "p", "y">>
D_work == <<"/", "w">>
D_site == <<"/", "s", "p", "/", "t", "a", "l", "l", "y", "_", "c", "l", "i">>

\* <<platform.system(), platform.machine()>> as hosts report them.
Hosts == { <<H_Linux, S_x86_64>>, <<H_Windows, H_AMD64>>, <<H_Darwin, S_arm64>>, <<H_Linux, S_aarch64>>, <<H_Linux, H_riscv64>> }
\* __file__ of the launcher module.
LauncherFiles == { F_site, F_rel, F_root }
\* Working directories the launcher is started from.
WorkDirs == { D_work, D_site }
\* sys.argv: the program name followed by the arguments given to the launcher.
ProgName == "tally"
ArgVectors == { <<ProgName>>, <<ProgName, "--flag", "value", "positional">>, <<ProgName, "value", "--flag">>, <<ProgName, "tally", "tally">> }
\* What may be at the binary path: nothing, a directory, a regular file
\* without or with the execute permission.
FsKinds == { "absent", "dir", "file_nx", "file_x" }
\* Statuses a terminated child can report (subprocess: -N for signal N).
ChildStatuses == { 0, 1, 42, -9 }

None == <<>>
Some(v) == <<v>>

\* ------------------------------------------------------- pure functions
\* str.lower(), one character.
LowerChar(c) == IF \E i \in 1..Len(UPPERCASE) : UPPERCASE[i] = c THEN LOWERCASE[CHOOSE i \in 1..Len(UPPERCASE) : UPPERCASE[i] = c] ELSE c

\* str.lower().
Lower(s) == IF s = <<>> THEN <<>> ELSE [i \in 1..Len(s) |-> LowerChar(s[i])]

\* ARCH_MAPPING = {'amd64': 'x86_64', 'aarch64': 'arm64'}
ARCH_MAPPING == [k \in {S_amd64, S_aarch64} |-> IF k = S_amd64 THEN S_x86_64 ELSE S_arm64]

\* dict.get(key, default)
DictGet(d, key, default) == IF key \in DOMAIN d THEN d[key] ELSE default

\* Variant of OsName: the .lower() is left out.
OsNameAsReported(sys) == sys
\* os_name = platform.system().lower()
OsName(sys) == Lower(sys)

\* Variant of ArchName: the table is looked up with the name as reported.
ArchNameNoLower(machine) == DictGet(ARCH_MAPPING, machine, machine)
\* arch = platform.machine().lower(); arch = ARCH_MAPPING.get(arch, arch)
ArchName(machine) == LET arch == Lower(machine) IN DictGet(ARCH_MAPPING, arch, arch)

\* Variant of Ext: compares with the name as the host reports it.
ExtOfSystem(os) == IF os = H_Windows THEN S_exe ELSE <<>>
\* c and x or y: y also when x is the empty string.
AndOr(c, x, y) == IF c /\ x # <<>> THEN x ELSE y
\* ext = os_name == "windows" and ".exe" or ""
Ext(os) == AndOr(os = S_windows, S_exe, <<>>)

\* subfolder = f"tally-{os_name}-{arch}"
Subfolder(os, arch) == S_tally_dash \o os \o S_dash \o arch

\* os.path.join(a, *p), in its POSIX flavour (posixpath.join).
RECURSIVE JoinFrom(_, _)
JoinFrom(path, p) == IF p = <<>> THEN path ELSE LET b == Head(p) IN JoinFrom(IF b # <<>> /\ Head(b) = SEP THEN b ELSE IF path = <<>> \/ path[Len(path)] = SEP THEN path \o b ELSE path \o <<SEP>> \o b, Tail(p))
Join(a, p) == JoinFrom(a, p)

\* str.rstrip(sep)
RECURSIVE RStrip(_)
RStrip(s) == IF s # <<>> /\ s[Len(s)] = SEP THEN RStrip(SubSeq(s, 1, Len(s) - 1)) ELSE s

\* os.path.dirname(p), in its POSIX flavour (posixpath.dirname).
Dirname(p) == LET slashes == { i \in 1..Len(p) : p[i] = SEP } i == IF slashes = {} THEN 0 ELSE CHOOSE m \in slashes : \A k \in slashes : k <= m head == SubSeq(p, 1, i) IN IF head # <<>> /\ (\E k \in 1..Len(head) : head[k] # SEP) THEN RStrip(head) ELSE head

\* f"Couldn't find binary {executable}. Please create an issue: {ISSUE_URL}"
Diagnostic(exe) == DIAG_PREFIX \o exe \o DIAG_MIDDLE \o ISSUE_URL

\* Variant of IsFile: os.path.exists, true of a directory too.
Exists(kind) == kind # "absent"
\* os.path.isfile(executable)
IsFile(kind) == kind \in { "file_nx", "file_x" }

\* Variant of MissingStatus: the branch ends without a failure status.
MissingStatusSuccess == 1 - 1
\* return 1
MissingStatus == 1

\* Variant of ForwardedArgv: the program name is forwarded too.
ForwardedWholeArgv(exe, argv) == <<exe>> \o argv
\* [executable] + sys.argv[1:]
ForwardedArgv(exe, argv) == <<exe>> \o SubSeq(argv, 2, Len(argv))

\* Variant of ReturnCode: the status is cut to one byte.
ReturnCodeByte(status) == status % 256
\* return result.returncode
ReturnCode(status) == status

\* ---------------------------------------------------------------- state
VARIABLES pc, runs, system, machine, launcherFile, cwd, sysargv, fs, os_name, arch, ext, executable, found, stderr, attempts, childStatus, error, ret, prev

vars == <<pc, runs, system, machine, launcherFile, cwd, sysargv, fs, os_name, arch, ext, executable, found, stderr, attempts, childStatus, error, ret, prev>>

\* How the invocation ended: "missing" (lines 19-21), "ran" (lines 23-24),
\* "raised" (subprocess.run raised out of main).
Outcome == IF pc = "raised" THEN "raised" ELSE IF found = "no" THEN "missing" ELSE "ran"

NoPrev == [outcome |-> "none", cwd |-> <<>>, path |-> <<>>, ret |-> None]

Init ==
    /\ pc = "idle"
    /\ runs = 0
    /\ \E h \in Hosts : system = h[1] /\ machine = h[2]
    /\ launcherFile \in LauncherFiles
    /\ cwd = <<>>
    /\ sysargv = <<>>
    /\ fs = "absent"
    /\ os_name = <<>>
    /\ arch = <<>>
    /\ ext = <<>>
    /\ executable = <<>>
    /\ found = "unchecked"
    /\ stderr = <<>>
    /\ attempts = <<>>
    /\ childStatus = None
    /\ error = None
    /\ ret = None
    /\ prev = NoPrev

\* The launcher process is started: the working directory, sys.argv and
\* the file system are given.
Invoke(c, a, k) ==
    /\ pc \in { "idle", "done", "raised" }
    /\ runs < MaxRuns
    /\ runs' = runs + 1
    /\ prev' = (IF pc = "idle" THEN prev ELSE [outcome |-> Outcome, cwd |-> cwd, path |-> executable, ret |-> ret])
    /\ cwd' = c
    /\ sysargv' = a
    /\ fs' = k
    /\ os_name' = <<>>
    /\ arch' = <<>>
    /\ ext' = <<>>
    /\ executable' = <<>>
    /\ found' = "unchecked"
    /\ stderr' = <<>>
    /\ attempts' = <<>>
    /\ childStatus' = None
    /\ error' = None
    /\ ret' = None
    /\ pc' = "started"
    /\ UNCHANGED <<system, machine, launcherFile>>

\* Variant of InstallDir: the working directory.
InstallDirCwd == cwd
\* os.path.dirname(__file__)
InstallDir == Dirname(launcherFile)

\* os.path.join(os.path.dirname(__file__), "bin", subfolder, "tally"+ext)
Executable(dir, os, a, e) == Join(dir, <<S_bin, Subfolder(os, a), S_tally \o e>>)

\* main, lines 13-18: resolve the platform and build the path.
Resolve ==
    /\ pc = "started"
    /\ os_name' = OsName(system)
    /\ arch' = ArchName(machine)
    /\ ext' = Ext(os_name')
    /\ executable' = Executable(InstallDir, os_name', arch', ext')
    /\ pc' = "built"
    /\ UNCHANGED <<runs, system, machine, launcherFile, cwd, sysargv, fs, found, stderr, attempts, childStatus, error, ret, prev>>

\* main, lines 19-21: no regular file at the path.
CheckMissing ==
    /\ pc = "built"
    /\ ~IsFile(fs)
    /\ found' = "no"
    /\ stderr' = Append(stderr, Diagnostic(executable))
    /\ ret' = Some(MissingStatus)
    /\ pc' = "done"
    /\ UNCHANGED <<runs, system, machine, launcherFile, cwd, sysargv, fs, os_name, arch, ext, executable, attempts, childStatus, error, prev>>

\* main, line 19: a regular file is at the path.
CheckFound ==
    /\ pc = "built"
    /\ IsFile(fs)
    /\ found' = "yes"
    /\ pc' = "checked"
    /\ UNCHANGED <<runs, system, machine, launcherFile, cwd, sysargv, fs, os_name, arch, ext, executable, stderr, attempts, childStatus, error, ret, prev>>

\* Another process changes what is at the path between the check of line 19
\* and the spawn of line 23.
FsChange(k) ==
    /\ pc = "checked"
    /\ k # fs
    /\ fs' = k
    /\ UNCHANGED <<pc, runs, system, machine, launcherFile, cwd, sysargv, os_name, arch, ext, executable, found, stderr, attempts, childStatus, error, ret, prev>>

\* The error the host reports when it cannot execute what is at the path.
SpawnError(kind) == IF kind = "absent" THEN "FileNotFoundError" ELSE IF kind = "file_x" THEN "OSError" ELSE "PermissionError"

\* main, line 23: subprocess.run starts the child.
SpawnOk ==
    /\ pc = "checked"
    /\ fs = "file_x"
    /\ attempts' = Append(attempts, ForwardedArgv(executable, sysargv))
    /\ pc' = "running"
    /\ UNCHANGED <<runs, system, machine, launcherFile, cwd, sysargv, fs, os_name, arch, ext, executable, found, stderr, childStatus, error, ret, prev>>

\* Variant of SpawnRaised: the error is caught and reported as a missing binary.
SpawnRecovered(e) == [pc |-> "done", ret |-> Some(MissingStatus), stderr |-> Append(stderr, Diagnostic(executable)), error |-> None]
\* main, line 23: subprocess.run raises; nothing in main catches it.
SpawnRaised(e) == [pc |-> "raised", ret |-> None, stderr |-> stderr, error |-> Some(e)]

SpawnFail ==
    /\ pc = "checked"
    /\ LET after == SpawnRaised(SpawnError(fs)) IN
        /\ pc' = after.pc
        /\ ret' = after.ret
        /\ stderr' = after.stderr
        /\ error' = after.error
    /\ attempts' = Append(attempts, ForwardedArgv(executable, sysargv))
    /\ UNCHANGED <<runs, system, machine, launcherFile, cwd, sysargv, fs, os_name, arch, ext, executable, found, childStatus, prev>>

\* The child terminates with a status.
ChildExit(s) ==
    /\ pc = "running"
    /\ childStatus' = Some(s)
    /\ pc' = "exited"
    /\ UNCHANGED <<runs, system, machine, launcherFile, cwd, sysargv, fs, os_name, arch, ext, executable, found, stderr, attempts, error, ret, prev>>

\* Variant of RunReturns: the child is not waited for.
RunReturnsEarly == pc \in { "running", "exited" }
\* subprocess.run returns once the child has been waited for.
RunReturns == pc = "exited"

\* main, lines 23-24: result = subprocess.run(...); return result.returncode
Return ==
    /\ RunReturns
    /\ ret' = (IF childStatus = None THEN None ELSE Some(ReturnCode(childStatus[1])))
    /\ pc' = "done"
    /\ UNCHANGED <<runs, system, machine, launcherFile, cwd, sysargv, fs, os_name, arch, ext, executable, found, stderr, attempts, childStatus, error, prev>>

Next ==
    \/ \E c \in WorkDirs, a \in ArgVectors, k \in FsKinds : Invoke(c, a, k)
    \/ Resolve
    \/ CheckMissing
    \/ CheckFound
    \/ \E k \in FsKinds : FsChange(k)
    \/ SpawnOk
    \/ SpawnFail
    \/ \E s \in ChildStatuses : ChildExit(s)
    \/ Return

Spec == Init /\ [][Next]_vars

\* The interpreter keeps running main once subprocess.run can return.
FairSpec == Spec /\ WF_vars(Return)

\* ------------------------------------------------------------ properties
\* sub occurs in s.
Contains(sub, s) == \E i \in 0..(Len(s) - Len(sub)) : SubSeq(s, i + 1, i + Len(sub)) = sub
\* s ends with suffix.
EndsWith(s, suffix) == Len(s) >= Len(suffix) /\ SubSeq(s, Len(s) - Len(suffix) + 1, Len(s)) = suffix
IsUpperChar(c) == \E i \in 1..Len(UPPERCASE) : UPPERCASE[i] = c
NoUpper(s) == \A i \in 1..Len(s) : ~IsUpperChar(s[i])
\* a and b are the same string up to the case of their letters.
SameIgnoringCase(a, b) == Len(a) = Len(b) /\ \A i \in 1..Len(a) : a[i] = b[i] \/ (\E j \in 1..Len(UPPERCASE) : {a[i], b[i]} = {UPPERCASE[j], LOWERCASE[j]})
\* The platform has been resolved and the path built in this invocation.
Built == pc \notin { "idle", "started" }

\* C1: when the child was spawned and has terminated and main has returned,
\* main's return value is the child's status, whatever the status.
ExitStatusPropagated == (pc = "done" /\ found = "yes") => (childStatus # None /\ ret = childStatus)
ExitStatusPropagatedWitness == pc = "done" /\ found = "yes" /\ childStatus = Some(-9) /\ ret = Some(-9)

\* C2: a check that finds no regular file at the path (nothing, or a
\* directory) ends main at once with status 1 and one diagnostic on the
\* error stream that contains the path and the issue URL, and an invocation
\* that took this branch has spawned nothing.
MissingBinaryHandled ==
    /\ [][(pc = "built" /\ fs \in { "absent", "dir" }) => (pc' = "done" /\ found' = "no" /\ ret' = Some(1) /\ Len(stderr') = 1 /\ Contains(executable, stderr'[1]) /\ Contains(ISSUE_URL, stderr'[1]) /\ attempts' = <<>>)]_vars
    /\ [](found = "no" => (pc = "done" /\ ret = Some(1) /\ Len(stderr) = 1 /\ Contains(executable, stderr[1]) /\ Contains(ISSUE_URL, stderr[1]) /\ attempts = <<>>))
MissingBinaryHandledWitness == pc = "done" /\ found = "no" /\ fs = "dir" /\ ret = Some(1) /\ attempts = <<>> /\ Len(stderr) = 1 /\ Contains(executable, stderr[1])

\* One of the last two invocations ended in the missing-binary branch and
\* the other ran a child that terminated with a non-zero status.
MissingAndFailedPair ==
    /\ pc = "done"
    /\ \/ (prev.outcome = "missing" /\ found = "yes" /\ childStatus # Some(0))
       \/ (prev.outcome = "ran" /\ prev.ret # Some(0) /\ found = "no")
\* C3 as stated: the status of the missing-binary branch differs from every
\* non-zero status propagated from a child.
MissingStatusDistinct == MissingAndFailedPair => ret # prev.ret
\* C3 as amended: the missing-binary branch returns 1, and that differs from
\* the status propagated from a failed child exactly when that status is not 1.
MissingStatusDistinctUnlessOne ==
    /\ (pc = "done" /\ found = "no") => (ret = Some(1))
    /\ (MissingAndFailedPair /\ found = "yes") => ((ret # prev.ret) <=> (childStatus # Some(1)))
    /\ (MissingAndFailedPair /\ found = "no") => ((ret # prev.ret) <=> (prev.ret # Some(1)))
MissingStatusDistinctUnlessOneWitness == MissingAndFailedPair /\ prev.outcome = "missing" /\ childStatus = Some(42) /\ ret # prev.ret

\* C4: every argument vector given to a spawn is the path followed by
\* sys.argv without its first element: same length, same elements, same order.
ArgsForwardedExactly ==
    \A i \in 1..Len(attempts) :
        /\ Len(attempts[i]) = Len(sysargv)
        /\ attempts[i][1] = executable
        /\ \A j \in 2..Len(sysargv) : attempts[i][j] = sysargv[j]
ArgsForwardedExactlyWitness == pc = "running" /\ sysargv = <<ProgName, "--flag", "value", "positional">> /\ attempts = << <<executable, "--flag", "value", "positional">> >>

\* C5: the resolved architecture is x86_64 for amd64 and arm64 for aarch64
\* in any case of their letters, and otherwise the reported name in lower
\* case; the step that resolves the platform always ends with the path
\* built, and main never fails before the spawn.
ArchResolved ==
    /\ [](/\ (pc = "raised") => (attempts # <<>>)
          /\ Built =>
              /\ SameIgnoringCase(machine, S_amd64) => (arch = S_x86_64)
              /\ SameIgnoringCase(machine, S_aarch64) => (arch = S_arm64)
              /\ (~SameIgnoringCase(machine, S_amd64) /\ ~SameIgnoringCase(machine, S_aarch64)) => (SameIgnoringCase(machine, arch) /\ NoUpper(arch)))
    /\ [][(pc = "started") => (pc' = "built")]_vars
ArchResolvedWitness == pc = "built" /\ machine = H_AMD64 /\ arch = S_x86_64

\* C6: the extension is ".exe" exactly when os_name is "windows", it is
\* empty otherwise, and it is the extension of the file the path names.
ExtIffWindows ==
    Built =>
        /\ (ext = S_exe) <=> (os_name = S_windows)
        /\ (ext # S_exe) => (ext = <<>>)
        /\ EndsWith(executable, <<SEP>> \o S_tally \o ext)
ExtIffWindowsWitness == pc = "built" /\ os_name = S_windows /\ ext = S_exe /\ EndsWith(executable, S_exe)

\* C7: os_name is the reported system name in lower case, and that value
\* decides the extension and names the directory of the binary.
OsNameLowerCased ==
    Built =>
        /\ NoUpper(os_name)
        /\ SameIgnoringCase(system, os_name)
        /\ SameIgnoringCase(system, S_windows) => (ext = S_exe)
        /\ Contains(<<SEP>> \o S_tally_dash \o os_name \o S_dash \o arch \o <<SEP>>, executable)
OsNameLowerCasedWitness == pc = "built" /\ system = H_Windows /\ os_name = S_windows /\ ext = S_exe

\* The launcher file's name up to and with its last separator.
DirPrefix(file) == LET slashes == { i \in 1..Len(file) : file[i] = SEP } IN IF slashes = {} THEN <<>> ELSE SubSeq(file, 1, CHOOSE m \in slashes : \A k \in slashes : k <= m)
\* C8: the path is <directory of the launcher's file>/bin/tally-<os_name>-<arch>/tally<ext>,
\* and it is the path the invocation before computed on the same host and
\* installation, whatever the working directories and arguments of the two.
PathDeterministic ==
    Built =>
        /\ executable = DirPrefix(launcherFile) \o S_bin \o <<SEP>> \o S_tally_dash \o os_name \o S_dash \o arch \o <<SEP>> \o S_tally \o ext
        /\ (prev.outcome # "none") => (executable = prev.path)
PathDeterministicWitness == pc = "built" /\ prev.outcome # "none" /\ prev.cwd # cwd /\ launcherFile = F_site /\ executable = prev.path

\* subprocess.run was called in this invocation and started no child.
SpawnFailed == attempts # <<>> /\ pc \notin { "running", "exited" } /\ childStatus = None
\* C9: when the spawn fails, main ends with the host's error and nothing
\* else: no return value, nothing on the error stream, one attempt, made
\* on the computed path.
SpawnFailurePropagates ==
    SpawnFailed =>
        /\ pc = "raised"
        /\ found = "yes"
        /\ ret = None
        /\ stderr = <<>>
        /\ Len(attempts) = 1
        /\ attempts[1][1] = executable
        /\ error # None
        /\ (fs = "absent") => (error = Some("FileNotFoundError"))
        /\ (fs \in { "dir", "file_nx" }) => (error = Some("PermissionError"))
SpawnFailurePropagatesWitness == pc = "raised" /\ found = "yes" /\ fs = "absent" /\ error = Some("FileNotFoundError") /\ ret = None /\ stderr = <<>>

\* C10: at most one spawn per invocation, only after the check found the
\* file; main returns on that branch only after the child has terminated,
\* and once the child has terminated main does return.
OneChildWaitedFor ==
    /\ [](/\ Len(attempts) <= 1
          /\ (attempts # <<>>) => (found = "yes")
          /\ (pc = "done" /\ found = "yes") => (Len(attempts) = 1 /\ childStatus # None)
          /\ (pc = "running") => (ret = None))
    /\ (pc = "exited") ~> (pc = "done")
OneChildWaitedForWitness == pc = "done" /\ found = "yes" /\ Len(attempts) = 1 /\ childStatus = Some(0) /\ ret = Some(0)

====
